---- MODULE Spec2Model ----
(***************************************************************************)
(* Model of src/src/weather_api.py: the historical collection loop         *)
(* (fetch_historical_weather) and the categorisation of a weather table    *)
(* (create_weather_categories).                                            *)
(*                                                                         *)
(* Dates are day numbers.  A response of the remote API is one of          *)
(*   "200"             status 200 with a body carrying data['current']     *)
(*   "200_bad_body"    status 200 whose body lacks a key read at 72-83     *)
(*   "401", "429"      the two statuses the loop tests for                 *)
(*   "500"             any other status                                    *)
(*   "ConnectionError" requests.get raised instead of returning            *)
(***************************************************************************)
EXTENDS Integers, Sequences, FiniteSets, TLC

VARIABLES
    API_KEY,          \* module global read from the environment (line 16)
    start_date,       \* argument
    end_date,         \* argument
    api_key,          \* argument, reassigned at line 45
    pc,               \* position of the call
    current_date,     \* local (line 53); 0 before it is assigned
    weather_data,     \* local list of rows (line 52)
    response,         \* outcome of the last requests.get (line 69)
    df,               \* the table handed back to the caller (line 107)
    log,              \* history: every request issued, with its outcome
    delay,            \* history: seconds slept since the last request
    rate_limits_left, \* remote: 429 answers it will still give
    stall_day,        \* remote: the day it answers with 429 forever; 0 if none
    weather_df,       \* caller's table handed to create_weather_categories
    input_df,         \* history: weather_df as it was before the first call
    out1,             \* result of create_weather_categories(weather_df)
    out2,             \* result of create_weather_categories(out1)
    cpc               \* position of the categorisation scenario

fetchVars == <<API_KEY, start_date, end_date, api_key, pc, current_date,
               weather_data, response, df, log, delay, rate_limits_left,
               stall_day>>
catVars == <<weather_df, input_df, out1, out2, cpc>>
vars == <<fetchVars, catVars>>

----------------------------------------------------------------------------
(* Bounds                                                                  *)

MaxDay == 3
MaxRateLimits == 2
MaxRows == 2

Days == 1..MaxDay
\* longest history of a run against a remote that is not stalling
MaxLog == MaxDay + MaxRateLimits + 1

----------------------------------------------------------------------------
(* fetch_historical_weather                                                *)

None == "<None>"
ApiKeys == {None, "", "secret"}

\* variant: only None counts as a missing credential
TruthyNotNone(k) == k # None

\* Python truthiness of the credential: `not api_key` (line 47)
Truthy(k) == k # None /\ k # ""

CourtesyDelay == 1
BackoffDelay == 60

Responses == {"200", "200_bad_body", "401", "429", "500", "ConnectionError"}

EmptyTable == [columns |-> {}, rows |-> <<>>]

Init ==
    /\ API_KEY \in ApiKeys
    /\ start_date \in Days
    /\ end_date \in Days
    /\ api_key \in ApiKeys
    /\ pc = "entry"
    /\ current_date = 0
    /\ weather_data = <<>>
    /\ response = "none"
    /\ df = <<>>
    /\ log = <<>>
    /\ delay = 0
    /\ rate_limits_left \in 0..MaxRateLimits
    /\ stall_day \in {0} \cup Days
    /\ weather_df = EmptyTable
    /\ input_df = EmptyTable
    /\ out1 = EmptyTable
    /\ out2 = EmptyTable
    /\ cpc = "idle"

\* lines 44-55: credential fallback and check, locals initialised
Entry ==
    /\ pc = "entry"
    /\ LET k == IF api_key = None THEN API_KEY ELSE api_key
       IN /\ api_key' = k
          /\ IF ~Truthy(k)
             THEN /\ pc' = "raised"
                  /\ UNCHANGED <<weather_data, current_date>>
             ELSE /\ pc' = "while"
                  /\ weather_data' = <<>>
                  /\ current_date' = start_date
    /\ UNCHANGED <<API_KEY, start_date, end_date, response, df, log, delay,
                   rate_limits_left, stall_day, catVars>>

\* variant: the comparison of the loop test reversed
WhileTestReversed ==
    /\ pc = "while"
    /\ pc' = IF current_date >= end_date THEN "get" ELSE "return"
    /\ UNCHANGED <<API_KEY, start_date, end_date, api_key, current_date,
                   weather_data, response, df, log, delay, rate_limits_left,
                   stall_day, catVars>>

\* line 57: the loop test
WhileTest ==
    /\ pc = "while"
    /\ pc' = IF current_date <= end_date THEN "get" ELSE "return"
    /\ UNCHANGED <<API_KEY, start_date, end_date, api_key, current_date,
                   weather_data, response, df, log, delay, rate_limits_left,
                   stall_day, catVars>>

\* what the remote may answer to a request for day d
Answers(d) ==
    IF stall_day = d
    THEN {"429"}
    ELSE (Responses \ {"429"})
         \cup (IF rate_limits_left > 0 THEN {"429"} ELSE {})

\* lines 58-69: one request for current_date
Request ==
    /\ pc = "get"
    /\ Len(log) < MaxLog
    /\ \E r \in Answers(current_date) :
         /\ response' = r
         /\ log' = Append(log, [date |-> current_date, response |-> r])
         /\ rate_limits_left' =
              IF r = "429" /\ stall_day # current_date
              THEN rate_limits_left - 1 ELSE rate_limits_left
         /\ pc' = IF r = "ConnectionError" THEN "except" ELSE "dispatch"
    /\ delay' = 0
    /\ UNCHANGED <<API_KEY, start_date, end_date, api_key, current_date,
                   weather_data, df, stall_day, catVars>>

\* lines 71-86: status 200; a body without the keys read raises inside the try
On200 ==
    /\ pc = "dispatch"
    /\ response \in {"200", "200_bad_body"}
    /\ IF response = "200"
       THEN /\ weather_data' = Append(weather_data, [date |-> current_date])
            /\ pc' = "sleep"
       ELSE /\ pc' = "except"
            /\ UNCHANGED weather_data
    /\ UNCHANGED <<API_KEY, start_date, end_date, api_key, current_date,
                   response, df, log, delay, rate_limits_left, stall_day,
                   catVars>>

\* lines 88-89: raise ValueError inside the try block; the handler of
\* line 99 catches Exception, of which ValueError is a subclass
On401 ==
    /\ pc = "dispatch"
    /\ response = "401"
    /\ pc' = "except"
    /\ UNCHANGED <<API_KEY, start_date, end_date, api_key, current_date,
                   weather_data, response, df, log, delay, rate_limits_left,
                   stall_day, catVars>>

\* variant: the `continue` of line 93 missing
On429FallsThrough ==
    /\ pc = "dispatch"
    /\ response = "429"
    /\ delay' = delay + BackoffDelay
    /\ pc' = "sleep"
    /\ UNCHANGED <<API_KEY, start_date, end_date, api_key, current_date,
                   weather_data, response, df, log, rate_limits_left,
                   stall_day, catVars>>

\* lines 90-93: sleep 60 seconds, then continue with the loop test
On429 ==
    /\ pc = "dispatch"
    /\ response = "429"
    /\ delay' = delay + BackoffDelay
    /\ pc' = "while"
    /\ UNCHANGED <<API_KEY, start_date, end_date, api_key, current_date,
                   weather_data, response, df, log, rate_limits_left,
                   stall_day, catVars>>

\* variant: a row appended whatever the status
OnOtherAppends ==
    /\ pc = "dispatch"
    /\ response \notin {"200", "200_bad_body", "401", "429"}
    /\ weather_data' = Append(weather_data, [date |-> current_date])
    /\ pc' = "sleep"
    /\ UNCHANGED <<API_KEY, start_date, end_date, api_key, current_date,
                   response, df, log, delay, rate_limits_left, stall_day,
                   catVars>>

\* lines 94-95: any other status is reported
OnOther ==
    /\ pc = "dispatch"
    /\ response \notin {"200", "200_bad_body", "401", "429"}
    /\ pc' = "sleep"
    /\ UNCHANGED <<API_KEY, start_date, end_date, api_key, current_date,
                   weather_data, response, df, log, delay, rate_limits_left,
                   stall_day, catVars>>

\* variant: the courtesy delay left out
SleepSkipped ==
    /\ pc = "sleep"
    /\ pc' = "advance"
    /\ UNCHANGED <<API_KEY, start_date, end_date, api_key, current_date,
                   weather_data, response, df, log, delay, rate_limits_left,
                   stall_day, catVars>>

\* line 97: the courtesy delay, last statement of the try block
Sleep ==
    /\ pc = "sleep"
    /\ delay' = delay + CourtesyDelay
    /\ pc' = "advance"
    /\ UNCHANGED <<API_KEY, start_date, end_date, api_key, current_date,
                   weather_data, response, df, log, rate_limits_left,
                   stall_day, catVars>>

\* variant: the handler re-raises to the caller
ExceptReraises ==
    /\ pc = "except"
    /\ pc' = "raised"
    /\ UNCHANGED <<API_KEY, start_date, end_date, api_key, current_date,
                   weather_data, response, df, log, delay, rate_limits_left,
                   stall_day, catVars>>

\* variant: the handler retries the same day
ExceptRetries ==
    /\ pc = "except"
    /\ pc' = "while"
    /\ UNCHANGED <<API_KEY, start_date, end_date, api_key, current_date,
                   weather_data, response, df, log, delay, rate_limits_left,
                   stall_day, catVars>>

\* lines 99-100: the handler reports the exception and falls through
Except ==
    /\ pc = "except"
    /\ pc' = "advance"
    /\ UNCHANGED <<API_KEY, start_date, end_date, api_key, current_date,
                   weather_data, response, df, log, delay, rate_limits_left,
                   stall_day, catVars>>

\* line 102
Advance ==
    /\ pc = "advance"
    /\ current_date' = current_date + 1
    /\ pc' = "while"
    /\ UNCHANGED <<API_KEY, start_date, end_date, api_key, weather_data,
                   response, df, log, delay, rate_limits_left, stall_day,
                   catVars>>

\* lines 104-107
Return ==
    /\ pc = "return"
    /\ df' = weather_data
    /\ pc' = "returned"
    /\ UNCHANGED <<API_KEY, start_date, end_date, api_key, current_date,
                   weather_data, response, log, delay, rate_limits_left,
                   stall_day, catVars>>

Next ==
    \/ Entry
    \/ WhileTest
    \/ Request
    \/ On200
    \/ On401
    \/ On429
    \/ OnOther
    \/ Sleep
    \/ Except
    \/ Advance
    \/ Return

Spec == Init /\ [][Next]_vars

\* the call is sequential code that runs until it returns or raises
LiveSpec == Init /\ [][Next]_vars /\ WF_vars(Next)

----------------------------------------------------------------------------
(* create_weather_categories                                               *)
(* A table is a set of column names and a sequence of rows; a row maps     *)
(* each column name to its value.  Temperatures are whole degrees F.       *)

Temps == {31, 32, 49, 50, 69, 70, 84, 85}
Conditions == {"Clear", "Rain", "Snow", "Mist"}
InputColumns == {"temp_avg", "weather_main", "is_rainy"}

FullRows == [temp_avg : Temps, weather_main : Conditions, is_rainy : BOOLEAN]
RowsWith(cols) == {[c \in cols |-> r[c]] : r \in FullRows}

\* variant: the first threshold inclusive
categorize_temp_inclusive(temp) ==
    IF temp <= 32 THEN "Freezing"
    ELSE IF temp < 50 THEN "Cold"
    ELSE IF temp < 70 THEN "Mild"
    ELSE IF temp < 85 THEN "Warm"
    ELSE "Hot"

\* lines 207-217
categorize_temp(temp) ==
    IF temp < 32 THEN "Freezing"
    ELSE IF temp < 50 THEN "Cold"
    ELSE IF temp < 70 THEN "Mild"
    ELSE IF temp < 85 THEN "Warm"
    ELSE "Hot"

\* df[name] = series: adds or overwrites a column, one value per row
SetColumn(t, name, series) ==
    [columns |-> t.columns \cup {name},
     rows |-> [i \in DOMAIN t.rows |->
                 [c \in t.columns \cup {name} |->
                    IF c = name THEN series[i] ELSE t.rows[i][c]]]]

\* lines 206-219
WithTempCategory(t) ==
    IF "temp_avg" \in t.columns
    THEN SetColumn(t, "temp_category",
                   [i \in DOMAIN t.rows |-> categorize_temp(t.rows[i].temp_avg)])
    ELSE t

\* lines 221-224
WithConditionFlags(t) ==
    IF "weather_main" \in t.columns
    THEN LET main == [i \in DOMAIN t.rows |-> t.rows[i].weather_main]
             a == SetColumn(t, "is_clear",
                            [i \in DOMAIN main |-> main[i] = "Clear"])
             b == SetColumn(a, "is_rainy",
                            [i \in DOMAIN main |->
                               main[i] \in {"Rain", "Drizzle", "Thunderstorm"}])
         IN SetColumn(b, "is_snowy",
                      [i \in DOMAIN main |-> main[i] \in {"Snow", "Sleet"}])
    ELSE t

\* variant: line 204 without .copy(), the columns are set on the argument
create_weather_categories_in_place(t) ==
    [arg |-> WithConditionFlags(WithTempCategory(t)),
     ret |-> WithConditionFlags(WithTempCategory(t))]

\* lines 204-226: the argument object after the call, and the value returned.
\* The function works on a copy (line 204), so the argument is untouched.
create_weather_categories(t) ==
    [arg |-> t, ret |-> WithConditionFlags(WithTempCategory(t))]

InitCat ==
    /\ API_KEY = None
    /\ start_date = 1
    /\ end_date = 1
    /\ api_key = None
    /\ pc = "entry"
    /\ current_date = 0
    /\ weather_data = <<>>
    /\ response = "none"
    /\ df = <<>>
    /\ log = <<>>
    /\ delay = 0
    /\ rate_limits_left = 0
    /\ stall_day = 0
    /\ \E cols \in SUBSET InputColumns :
         \E n \in 0..MaxRows :
           \E rs \in [1..n -> RowsWith(cols)] :
             weather_df = [columns |-> cols, rows |-> rs]
    /\ input_df = weather_df
    /\ out1 = EmptyTable
    /\ out2 = EmptyTable
    /\ cpc = "loaded"

\* out1 = create_weather_categories(weather_df)
Categorize ==
    /\ cpc = "loaded"
    /\ LET c == create_weather_categories(weather_df)
       IN /\ weather_df' = c.arg
          /\ out1' = c.ret
    /\ cpc' = "once"
    /\ UNCHANGED <<input_df, out2, fetchVars>>

\* out2 = create_weather_categories(out1)
Recategorize ==
    /\ cpc = "once"
    /\ LET c == create_weather_categories(out1)
       IN /\ out1' = c.arg
          /\ out2' = c.ret
    /\ cpc' = "twice"
    /\ UNCHANGED <<weather_df, input_df, fetchVars>>

NextCat ==
    \/ Categorize
    \/ Recategorize

SpecCat == InitCat /\ [][NextCat]_vars

----------------------------------------------------------------------------
(* Properties of fetch_historical_weather                                  *)

Done == {"returned", "raised"}

\* the call was made without a usable credential: an empty string, or None
\* with no key or an empty one in the environment
NoCredential ==
    \/ api_key = ""
    \/ api_key = None /\ API_KEY \in {None, ""}

LogIndexes(resps) == {i \in DOMAIN log : log[i].response \in resps}
Last == log[Len(log)]
Requests(d) == Cardinality({i \in DOMAIN log : log[i].date = d})
RateLimits(d) ==
    Cardinality({i \in DOMAIN log : log[i].date = d /\ log[i].response = "429"})

\* C1: once the remote has answered a request with status 401, that request
\* is the last one issued and the call raises to the caller: it is either
\* still looking at that response or has raised, and never returns a table.
C1_AuthFailureAborts ==
    \A i \in LogIndexes({"401"}) :
        /\ i = Len(log)
        /\ pc \in {"dispatch", "raised"}

\* C2: a 429 answer never advances the current date: the request after it is
\* for the same date, the date of consecutive requests changes only by one
\* day and only after an answer other than 429, and the loop stands at
\* line 102 only after such an answer.
C2_RateLimitKeepsDate ==
    /\ \A i \in 1..(Len(log) - 1) :
         /\ log[i].response = "429" => log[i + 1].date = log[i].date
         /\ log[i].response # "429" => log[i + 1].date = log[i].date + 1
    /\ pc = "advance" => response # "429"
    /\ log # <<>> =>
         /\ current_date \in {Last.date, Last.date + 1}
         /\ Last.response = "429" => current_date = Last.date

C2_Witness ==
    /\ pc = "returned"
    /\ \E i \in 1..(Len(log) - 1) :
         /\ log[i].response = "429"
         /\ log[i + 1].date = log[i].date
         /\ log[i + 1].response = "200"

\* the days whose request succeeded and whose answer has been dealt with
Committed ==
    {log[i].date :
        i \in {j \in LogIndexes({"200"}) : ~(j = Len(log) /\ pc = "dispatch")}}

OneRowPerSuccess(rows) ==
    /\ {rows[i].date : i \in DOMAIN rows} = Committed
    /\ \A i \in 1..(Len(rows) - 1) : rows[i].date < rows[i + 1].date

\* C3: at every point of the run the accumulated rows are exactly the days
\* whose request succeeded, one row each, in strictly increasing date order,
\* and so is the table returned.
C3_OneRowPerSucceededDay ==
    /\ OneRowPerSuccess(weather_data)
    /\ pc = "returned" => OneRowPerSuccess(df)

C3_Witness ==
    /\ pc = "returned"
    /\ Len(df) = 2
    /\ LogIndexes({"429"}) # {}
    /\ LogIndexes({"500", "ConnectionError", "200_bad_body", "401"}) # {}

\* C4: a day answered with another status, or whose request raised a
\* transport exception, gets no row, the request after it is for the
\* following day, and the call does not raise.
C4_SkipIsNotFatal ==
    \A i \in LogIndexes({"500", "ConnectionError"}) :
        /\ \A k \in DOMAIN weather_data : weather_data[k].date # log[i].date
        /\ i < Len(log) => log[i + 1].date = log[i].date + 1
        /\ pc # "raised"
        /\ pc = "returned" => \A k \in DOMAIN df : df[k].date # log[i].date

C4_Witness ==
    /\ pc = "returned"
    /\ Len(log) = 3
    /\ log[1].response = "500"
    /\ log[2].response = "ConnectionError"
    /\ log[3].response = "200"
    /\ Len(df) = 1

\* C5 as stated: when the date is about to be advanced after a successful
\* or skipped iteration the 1-second delay has been performed, and a request
\* that is not the first is preceded by the 1-second or the 60-second delay.
C5_DelayBeforeEveryAdvance ==
    /\ (pc = "advance" /\ response \in {"200", "500", "ConnectionError"})
          => delay = CourtesyDelay
    /\ (pc = "get" /\ log # <<>>) => delay \in {CourtesyDelay, BackoffDelay}

\* the delay line 97 or line 92 performs after an answer: none when the
\* iteration left the try block through an exception
DelayAfter(r) ==
    IF r = "429" THEN BackoffDelay
    ELSE IF r \in {"200", "500"} THEN CourtesyDelay
    ELSE 0

\* C5 amended: the 1-second delay precedes the advance exactly when the
\* iteration got a well-formed 200 or another status; an iteration that ends
\* in the exception handler advances with no delay; between consecutive
\* requests the time slept is 1 second, 60 seconds or, after an exception,
\* nothing.
C5_DelayUnlessException ==
    /\ pc = "advance" => delay = DelayAfter(response)
    /\ (pc \in {"while", "get"} /\ log # <<>>) => delay = DelayAfter(response)

C5_Witness ==
    /\ pc = "get"
    /\ Len(log) = 3
    /\ log[1].response = "200"
    /\ log[2].response = "429"
    /\ log[3].response = "ConnectionError"
    /\ delay = 0

\* C6: without a credential the call raises before any request is issued,
\* whatever the date range.
C6_NoCredentialNoRequest ==
    NoCredential => (pc \in {"entry", "raised"} /\ log = <<>>)

C6_Witness ==
    /\ pc = "raised"
    /\ api_key = ""
    /\ API_KEY = "secret"
    /\ start_date > end_date
    /\ log = <<>>

\* C7: with a credential and start_date > end_date the call issues no
\* request, does not raise, and the table it returns is empty.
C7_ReversedRangeEmpty ==
    (start_date > end_date /\ ~NoCredential) =>
        /\ log = <<>>
        /\ pc \in {"entry", "while", "return", "returned"}
        /\ pc = "returned" => df = <<>>

C7_Witness ==
    /\ pc = "returned"
    /\ start_date > end_date
    /\ df = <<>>
    /\ log = <<>>

\* the remote answers 429 forever for a day of the range of a call that has
\* a credential
Stalls ==
    /\ ~NoCredential
    /\ stall_day \in start_date..end_date

\* every day the loop has left got one request plus one per 429 answer, the
\* day it is at has at most that, and no other day got a request
RequestCounts ==
    \A d \in Days :
        IF pc # "entry" /\ ~NoCredential /\ start_date <= d /\ d < current_date
        THEN Requests(d) = 1 + RateLimits(d)
        ELSE IF pc # "entry" /\ d = current_date
        THEN Requests(d) \in {RateLimits(d), RateLimits(d) + 1}
        ELSE Requests(d) = 0

\* C10: with a credential, start_date <= end_date and a remote that gives
\* finitely many 429 answers the call eventually returns or raises; each day
\* the loop has left got exactly one request plus one per 429 answer for it,
\* in non-decreasing date order; and when the remote answers 429 forever for
\* a day of the range the call never ends and never goes past that day.
C10_TerminatesUnlessStalled ==
    /\ (~NoCredential /\ start_date <= end_date /\ ~Stalls)
          => <>(pc \in Done)
    /\ [](/\ RequestCounts
          /\ \A i \in 1..(Len(log) - 1) : log[i].date <= log[i + 1].date
          /\ pc = "returned" =>
                \A d \in start_date..end_date :
                    Requests(d) = 1 + RateLimits(d)
          /\ Stalls => (pc \notin Done /\ current_date <= stall_day))

C10_Witness ==
    /\ pc = "returned"
    /\ Len(log) = MaxDay + MaxRateLimits
    /\ start_date = 1
    /\ end_date = MaxDay
    /\ RateLimits(1) = 1

----------------------------------------------------------------------------
(* Properties of create_weather_categories                                 *)

\* C8: applying the categorisation to its own result gives the same table,
\* and the table handed to it is left as it was.
C8_Idempotent ==
    /\ cpc \in {"once", "twice"} => weather_df = input_df
    /\ cpc = "twice" => out2 = out1

C8_Witness ==
    /\ cpc = "twice"
    /\ input_df.columns = InputColumns
    /\ Len(input_df.rows) = 2
    /\ input_df.rows[1].is_rainy # out1.rows[1].is_rainy
    /\ out2.rows[1].is_rainy = out1.rows[1].is_rainy

\* the category the thresholds 32, 50, 70, 85 assign, as intervals
InCategory(t, c) ==
    /\ c = "Freezing" <=> t < 32
    /\ c = "Cold" <=> (32 <= t /\ t < 50)
    /\ c = "Mild" <=> (50 <= t /\ t < 70)
    /\ c = "Warm" <=> (70 <= t /\ t < 85)
    /\ c = "Hot" <=> t >= 85

\* C9: every row with a temp_avg gets the one category of its interval:
\* below 32 Freezing, [32,50) Cold, [50,70) Mild, [70,85) Warm, 85 and
\* above Hot.
C9_TempCategoryThresholds ==
    (cpc \in {"once", "twice"} /\ "temp_avg" \in input_df.columns) =>
        /\ "temp_category" \in out1.columns
        /\ Len(out1.rows) = Len(input_df.rows)
        /\ \A i \in DOMAIN out1.rows :
             /\ out1.rows[i].temp_avg = input_df.rows[i].temp_avg
             /\ InCategory(out1.rows[i].temp_avg, out1.rows[i].temp_category)

C9_Witness ==
    /\ cpc = "once"
    /\ Len(out1.rows) = 2
    /\ "temp_avg" \in out1.columns
    /\ out1.rows[1].temp_avg = 32
    /\ out1.rows[1].temp_category = "Cold"
    /\ out1.rows[2].temp_avg = 85
    /\ out1.rows[2].temp_category = "Hot"

====
